---- MODULE Spec2Model ----
(***************************************************************************)
(* Model of the segregated free-list heap allocator of allocator.c         *)
(* (src/unnamed/part_001).  The heap is modelled bit-faithfully at the     *)
(* granularity of the 8-byte slot: a slot holds either a packed header     *)
(* (two 32-bit words, payloadsz and prevpayloadsz) or a free-list pointer  *)
(* (one 64-bit little-endian word).  Every operation of the allocator is   *)
(* an operator from heap state to heap state, composed exactly as the C    *)
(* code composes its calls.                                                *)
(***************************************************************************)
EXTENDS Integers, Sequences, FiniteSets, TLC

VARIABLES mem, buckets, max_block, min_block, npages, status, live, last, allocs, pre,
          unlinked

vars == <<mem, buckets, max_block, min_block, npages, status, live, last, allocs, pre,
          unlinked>>

(***************************************************************************)
(* Program constants.                                                      *)
(***************************************************************************)
ALIGNMENT == 8
NUM_BUCKETS == 15
INT_BITS == 32
INIT_PAGES == 1
PAGE_SIZE == 4096
\* sizeof(headerT): two packed unsigned ints
HDRSZ == 8
\* sizeof(void * ) on the 64-bit target
PTRSZ == 8

NULL == 0
\* The address at which the segment provider maps the heap (page aligned).
HEAP_BASE == PAGE_SIZE
\* Stand-in for any pointer value that lies outside every mapped page.
WILD == 2^30

(***************************************************************************)
(* Bounds of the model.                                                    *)
(***************************************************************************)
\* the provider refuses to grow the segment beyond this many pages
MaxPages == 3
\* the client holds at most this many allocations at a time
MaxLive == 2
\* between two calls of myinit the client asks at most this many times for a
\* new block (mymalloc of a size above 0, or a myrealloc that has to move)
MaxAllocs == 4

(***************************************************************************)
(* 32-bit words.  A word is kept decoded as bit 31 (fr), bits 2..30 (sz,   *)
(* a multiple of 4), bit 1 (nf) and bit 0 (pf); this is a bijection with   *)
(* the 32-bit unsigned integers.                                           *)
(***************************************************************************)
SZ_ALL == 2147483644

W(n) == [fr |-> FALSE, sz |-> n - (n % 4), nf |-> ((n \div 2) % 2 = 1), pf |-> (n % 2 = 1)]

ZeroW == W(0)

\* value of a word whose bit 31 is clear
Val(w) == w.sz + (IF w.nf THEN 2 ELSE 0) + (IF w.pf THEN 1 ELSE 0)

RECURSIVE BitAnd(_, _)
BitAnd(a, b) ==
    IF a = 0 \/ b = 0 THEN 0
    ELSE IF a = SZ_ALL THEN b
    ELSE IF b = SZ_ALL THEN a
    ELSE 2 * BitAnd(a \div 2, b \div 2) + (IF a % 2 = 1 /\ b % 2 = 1 THEN 1 ELSE 0)

RECURSIVE BitOr(_, _)
BitOr(a, b) ==
    IF a = 0 THEN b
    ELSE IF b = 0 THEN a
    ELSE 2 * BitOr(a \div 2, b \div 2) + (IF a % 2 = 1 \/ b % 2 = 1 THEN 1 ELSE 0)

AndW(a, b) == [fr |-> a.fr /\ b.fr, sz |-> BitAnd(a.sz, b.sz), nf |-> a.nf /\ b.nf, pf |-> a.pf /\ b.pf]

OrW(a, b) == [fr |-> a.fr \/ b.fr, sz |-> BitOr(a.sz, b.sz), nf |-> a.nf \/ b.nf, pf |-> a.pf \/ b.pf]

NotW(a) == [fr |-> ~a.fr, sz |-> SZ_ALL - a.sz, nf |-> ~a.nf, pf |-> ~a.pf]

SIZE_MASK == [fr |-> FALSE, sz |-> SZ_ALL, nf |-> FALSE, pf |-> FALSE]
FREE_MASK == [fr |-> TRUE, sz |-> 0, nf |-> FALSE, pf |-> FALSE]
PREV_FREE == W(1)
NEXT_FREE == W(2)
INIT_MASK == [fr |-> TRUE, sz |-> SZ_ALL, nf |-> TRUE, pf |-> FALSE]

(***************************************************************************)
(* Memory.  A heap state h is a record                                     *)
(*   mem       : slot address -> [lo, hi]  (the two 32-bit words at a, a+4)*)
(*   buckets   : 0..14 -> pointer                                          *)
(*   max_block, min_block : pointers                                       *)
(*   npages    : pages the segment provider has mapped                     *)
(*   st        : "ok", or how the running call stopped being defined:      *)
(*               "segv" (access outside the mapped segment), "hang" (a     *)
(*               loop that never ends), "undef" (a read of a slot whose    *)
(*               content the model does not track)                         *)
(* mem holds the slots whose content is determined: a slot absent from     *)
(* mem holds bytes the model does not track (see Scrub).                   *)
(***************************************************************************)
ZeroSlot == [lo |-> ZeroW, hi |-> ZeroW]

SegEnd(h) == HEAP_BASE + h.npages * PAGE_SIZE

InSeg(h, a) == a % 8 = 0 /\ a >= HEAP_BASE /\ a + 8 <= SegEnd(h)

Fault(h, why) == IF h.st = "ok" THEN [h EXCEPT !.st = why] ELSE h

\* a read of the slot at a
Chk(h, a) ==
    IF ~InSeg(h, a) THEN Fault(h, "segv")
    ELSE IF a \notin DOMAIN h.mem THEN Fault(h, "undef")
    ELSE h

Ld(h, a) == IF a \in DOMAIN h.mem THEN h.mem[a] ELSE ZeroSlot

\* a store to the slot at a
St(h, a, slot) ==
    IF h.st # "ok" THEN h
    ELSE IF ~InSeg(h, a) THEN Fault(h, "segv")
    ELSE [h EXCEPT !.mem = (a :> slot) @@ h.mem]

\* pointer arithmetic, saturating at WILD (any address outside the segment)
PAdd(p, n) == IF p >= WILD \/ n >= WILD \/ p + n >= WILD THEN WILD ELSE p + n

PSub(p, n) == IF p >= WILD \/ n > p THEN WILD ELSE p - n

\* a 64-bit pointer stored in / loaded from one slot
PtrSlot(p) == [lo |-> W(p), hi |-> ZeroW]

LdPtr(h, a) ==
    LET s == Ld(h, a)
    IN  IF s.hi = ZeroW /\ ~s.lo.fr /\ Val(s.lo) < WILD THEN Val(s.lo) ELSE WILD

(***************************************************************************)
(* Header codec and block navigation.                                      *)
(***************************************************************************)
\* a roundup that drops the remainder instead of rounding up
roundup_down(sz, mult) == (sz \div mult) * mult

\* (sz + mult-1) & ~(mult-1), mult a power of two: clearing the low bits of
\* sz + mult - 1 is subtracting its remainder modulo mult
roundup(sz, mult) == (sz + mult - 1) - ((sz + mult - 1) % mult)

hdr_for_payload(payload) == PSub(payload, HDRSZ)

payload_for_hdr(header) == PAdd(header, HDRSZ)

set_payload_size(h, payload, value) ==
    LET a == hdr_for_payload(payload)
    IN  St(h, a, [Ld(h, a) EXCEPT !.lo = value])

set_prevpayload_size(h, payload, value) ==
    LET a == hdr_for_payload(payload)
    IN  St(h, a, [Ld(h, a) EXCEPT !.hi = value])

get_payloadsz(h, payload) == Ld(h, hdr_for_payload(payload)).lo

get_size(h, payload) == AndW(get_payloadsz(h, payload), SIZE_MASK).sz

get_prev_size(h, payload) == AndW(Ld(h, hdr_for_payload(payload)).hi, SIZE_MASK).sz

RECURSIVE BitLen(_)
BitLen(v) == IF v = 0 THEN 0 ELSE 1 + BitLen(v \div 2)

\* cal_bucket without the offset of line 115: the bucket is floor(log2(value))
cal_bucket_unshifted(value) ==
    IF BitLen(value) - 1 > NUM_BUCKETS - 1 THEN NUM_BUCKETS - 1 ELSE BitLen(value) - 1

\* INT_BITS - __builtin_clz(value) is the bit length of value.  For value = 0
\* the builtin's result is undefined; no caller uses the bucket of a size
\* below 16, so the model's choice for it is never observed.
cal_bucket(value) ==
    LET bucket == BitLen(value)
    IN  IF bucket >= NUM_BUCKETS + 2 THEN NUM_BUCKETS - 1 ELSE bucket - 3

set_next_in_list(h, payload, dest) == St(h, payload, PtrSlot(dest))

set_prev_in_list(h, payload, dest) == St(h, PAdd(payload, PTRSZ), PtrSlot(dest))

get_next_in_list(h, payload) == LdPtr(h, payload)

get_prev_in_list(h, payload) == LdPtr(h, PAdd(payload, PTRSZ))

\* address of the header of the block above
get_next(h, block) == PAdd(block, get_size(h, block))

\* address of the payload of the block below
get_prev(h, block) == PSub(hdr_for_payload(block), get_prev_size(h, block))

set_prevfree(h, block) ==
    LET a == get_next(h, block)
    IN  St(Chk(Chk(h, hdr_for_payload(block)), a), a,
           [Ld(h, a) EXCEPT !.lo = OrW(@, PREV_FREE)])

set_nextfree(h, block) ==
    LET a == hdr_for_payload(get_prev(h, block))
    IN  St(Chk(Chk(h, hdr_for_payload(block)), a), a,
           [Ld(h, a) EXCEPT !.lo = OrW(@, NEXT_FREE)])

set_free(h, payload) ==
    set_payload_size(Chk(h, hdr_for_payload(payload)), payload,
                     OrW(get_payloadsz(h, payload), FREE_MASK))

is_free(h, payload) == AndW(W(get_size(h, payload)), FREE_MASK) # ZeroW

has_next_free(h, payload) == AndW(get_payloadsz(h, payload), NEXT_FREE) # ZeroW

has_prev_free(h, payload) == AndW(get_payloadsz(h, payload), PREV_FREE) # ZeroW

\* buckets[i] := p; an index outside the array is an out-of-bounds store
SetBucket(h, i, p) ==
    IF h.st # "ok" THEN h
    ELSE IF i \in 0..(NUM_BUCKETS - 1) THEN [h EXCEPT !.buckets[i] = p]
    ELSE Fault(h, "segv")

GetBucket(h, i) == IF i \in 0..(NUM_BUCKETS - 1) THEN h.buckets[i] ELSE WILD

ChkBucket(h, i) == IF i \in 0..(NUM_BUCKETS - 1) THEN h ELSE Fault(h, "segv")

\* clear_buckets leaving the heads as they are
clear_buckets_keeps(h) == h

clear_buckets(h) == [h EXCEPT !.buckets = [i \in 0..(NUM_BUCKETS - 1) |-> NULL]]

remove_from_list(h, curr, bucket_num) ==
    LET prev_free == get_prev_in_list(h, curr)
        next_free == get_next_in_list(h, curr)
        h0 == [Chk(Chk(h, curr), PAdd(curr, PTRSZ))
               EXCEPT !.unlinked = @ \cup {get_size(h, curr)}]
        h1 == IF prev_free # NULL THEN set_next_in_list(h0, prev_free, next_free)
              ELSE SetBucket(h0, bucket_num, next_free)
    IN  IF next_free # NULL THEN set_prev_in_list(h1, next_free, prev_free) ELSE h1

(***************************************************************************)
(* The segment provider (segment.h): pages are contiguous from HEAP_BASE.  *)
(* granted = FALSE is the provider refusing (it returns NULL).             *)
(***************************************************************************)
init_heap_segment(h, n, granted) ==
    IF granted
    THEN [h |-> [h EXCEPT !.npages = n, !.mem = [x \in {} |-> ZeroSlot]], r |-> HEAP_BASE]
    ELSE [h |-> h, r |-> NULL]

extend_heap_segment(h, n, granted) ==
    IF granted
    THEN [h |-> [h EXCEPT !.npages = @ + n], r |-> SegEnd(h)]
    ELSE [h |-> h, r |-> NULL]

(***************************************************************************)
(* coalesce: returns [h, r] with r the payload of the merged block.  The   *)
(* statements of a branch are applied in the order of the code, each to    *)
(* the heap the one before it leaves.                                      *)
(***************************************************************************)
\* lines 441-456, h0 the heap after the reads of lines 435-437
coalesce_up(h0, ptr, ptr_size) ==
    LET next_block == payload_for_hdr(get_next(h0, ptr))
        next_size == get_size(h0, next_block)
        new_size == ptr_size + next_size + HDRSZ
        unlink(x) == IF next_size >= 2 * PTRSZ
                     THEN remove_from_list(x, next_block, cal_bucket(next_size)) ELSE x
        resize(x) == set_payload_size(x, ptr,
                         OrW(W(new_size), AndW(get_payloadsz(x, next_block), NEXT_FREE)))
        above(x) == IF next_block < x.max_block
                    THEN set_prevpayload_size(x, payload_for_hdr(get_next(x, next_block)),
                                              W(new_size))
                    ELSE x
        newmax(x) == IF next_block = x.max_block THEN [x EXCEPT !.max_block = ptr] ELSE x
    IN  [h |-> newmax(above(resize(unlink(Chk(h0, hdr_for_payload(next_block)))))),
         r |-> ptr]

\* lines 457-473
coalesce_down(h0, ptr, ptr_size) ==
    LET prev_block == get_prev(h0, ptr)
        prev_size == get_size(h0, prev_block)
        new_size == ptr_size + prev_size + HDRSZ
        unlink(x) == IF prev_size >= 2 * PTRSZ
                     THEN remove_from_list(x, prev_block, cal_bucket(prev_size)) ELSE x
        resize(x) == set_payload_size(x, prev_block,
                         OrW(W(new_size), AndW(get_payloadsz(x, prev_block), PREV_FREE)))
        above(x) == IF ptr < x.max_block
                    THEN set_prevpayload_size(Chk(x, hdr_for_payload(ptr)),
                                              payload_for_hdr(get_next(x, ptr)), W(new_size))
                    ELSE x
        newmax(x) == IF ptr = x.max_block THEN [x EXCEPT !.max_block = prev_block] ELSE x
    IN  [h |-> newmax(above(resize(unlink(Chk(h0, hdr_for_payload(prev_block)))))),
         r |-> prev_block]

\* lines 474-495
coalesce_both(h0, ptr, ptr_size) ==
    LET prev_block == get_prev(h0, ptr)
        prev_size == get_size(h0, prev_block)
        next_block == payload_for_hdr(get_next(h0, ptr))
        next_size == get_size(h0, next_block)
        new_size == prev_size + HDRSZ + ptr_size + HDRSZ + next_size
        unlink_next(x) == IF next_size >= 2 * PTRSZ
                          THEN remove_from_list(x, next_block, cal_bucket(next_size)) ELSE x
        unlink_prev(x) == IF prev_size >= 2 * PTRSZ
                          THEN remove_from_list(x, prev_block, cal_bucket(prev_size)) ELSE x
        resize(x) == set_payload_size(x, prev_block,
                         OrW(W(new_size), AndW(W(get_size(x, prev_block)), PREV_FREE)))
        above(x) == IF next_block < x.max_block
                    THEN set_prevpayload_size(Chk(x, hdr_for_payload(next_block)),
                                              payload_for_hdr(get_next(x, next_block)),
                                              W(new_size))
                    ELSE x
        newmax(x) == IF next_block = x.max_block
                     THEN [x EXCEPT !.max_block = prev_block] ELSE x
    IN  [h |-> newmax(above(resize(unlink_prev(unlink_next(
                   Chk(Chk(h0, hdr_for_payload(prev_block)), hdr_for_payload(next_block))))))),
         r |-> prev_block]

coalesce(h, ptr) ==
    LET prev_is_free == has_prev_free(h, ptr)
        next_is_free == has_next_free(h, ptr)
        ptr_size == get_size(h, ptr)
        h0 == Chk(h, hdr_for_payload(ptr))
    IN  IF (~prev_is_free) /\ (~next_is_free) THEN [h |-> h0, r |-> ptr]
        ELSE IF (~prev_is_free) /\ next_is_free THEN coalesce_up(h0, ptr, ptr_size)
        ELSE IF (~next_is_free) /\ prev_is_free THEN coalesce_down(h0, ptr, ptr_size)
        ELSE coalesce_both(h0, ptr, ptr_size)

(***************************************************************************)
(* myfree.  The sorted-insert walk of lines 539-545 reads an unchanging    *)
(* list, so it never ends exactly when it comes back to a block it has     *)
(* already visited.                                                        *)
(***************************************************************************)
RECURSIVE insert_walk(_, _, _, _, _)
\* the while loop of lines 540-545: returns [h, curr, prev]
insert_walk(h, ptr, curr, prev, seen) ==
    IF curr = NULL THEN [h |-> h, curr |-> curr, prev |-> prev]
    ELSE IF curr \in seen THEN [h |-> Fault(h, "hang"), curr |-> curr, prev |-> prev]
    ELSE IF Chk(h, hdr_for_payload(curr)).st # "ok"
         THEN [h |-> Chk(h, hdr_for_payload(curr)), curr |-> curr, prev |-> prev]
    ELSE IF get_size(h, curr) >= get_size(h, ptr) THEN [h |-> h, curr |-> curr, prev |-> prev]
    ELSE IF Chk(h, curr).st # "ok" THEN [h |-> Chk(h, curr), curr |-> curr, prev |-> prev]
    ELSE insert_walk(h, ptr, get_next_in_list(h, curr), curr, seen \cup {curr})

\* lines 511-518: the flags of the neighbours and of the block, and max_block
free_flags(h, ptr) ==
    LET above(x) == IF ptr < x.max_block THEN set_prevfree(x, ptr) ELSE x
        below(x) == IF ptr # x.min_block THEN set_nextfree(x, ptr) ELSE x
        newmax(x) == IF ptr > x.max_block THEN [x EXCEPT !.max_block = ptr] ELSE x
    IN  newmax(set_free(below(above(h)), ptr))

\* myfree without the insertion of lines 519-550
free_insert_skipped(h, ptr) == h

\* lines 519-550: the block goes on the list of its bucket, in size order
free_insert(h, ptr) ==
    LET bucket == cal_bucket(get_size(h, ptr))
        bucketFirst == GetBucket(h, bucket)
        curr == bucketFirst
        h5 == IF curr = NULL THEN ChkBucket(h, bucket)
              ELSE Chk(ChkBucket(h, bucket), hdr_for_payload(curr))
        oldhead(x) == IF bucketFirst # NULL THEN set_prev_in_list(x, bucketFirst, ptr) ELSE x
        headInsert(x) ==
            SetBucket(oldhead(set_next_in_list(set_prev_in_list(x, ptr, NULL), ptr, bucketFirst)),
                      bucket, ptr)
        splice(w) ==
            LET before(x) == IF w.curr # NULL THEN set_prev_in_list(x, w.curr, ptr) ELSE x
                back(x) == IF w.prev # NULL THEN set_prev_in_list(x, ptr, w.prev) ELSE x
                after(x) == IF w.prev # NULL THEN set_next_in_list(x, w.prev, ptr) ELSE x
            IN  after(back(set_next_in_list(before(w.h), ptr, w.curr)))
    IN  IF curr = NULL THEN headInsert(h5)
        ELSE IF get_size(h5, curr) > get_size(h5, ptr) THEN headInsert(h5)
        ELSE splice(insert_walk(h5, ptr, curr, curr, {}))

\* lines 510-550 on the result c of coalesce
free_coalesced(c) == free_insert(free_flags(c.h, c.r), c.r)

\* myfree without the test of line 508
myfree_unguarded(h, ptr) == free_coalesced(coalesce(h, ptr))

myfree(h, ptr) == IF ptr = NULL THEN h ELSE free_coalesced(coalesce(h, ptr))

(***************************************************************************)
(* myinit: granted is the provider's answer.  Returns [h, r].              *)
(***************************************************************************)
myinit(h, granted) ==
    LET seg == init_heap_segment(clear_buckets(h), INIT_PAGES, granted)
        first == payload_for_hdr(seg.r)
        sizes(x) == set_prevpayload_size(
                        set_payload_size(x, first,
                            OrW(W(INIT_PAGES * PAGE_SIZE - HDRSZ), FREE_MASK)),
                        first, INIT_MASK)
        enlist(x) == SetBucket(set_prev_in_list(set_next_in_list(x, first, NULL), first, NULL),
                               cal_bucket(get_size(x, first)), first)
    IN  IF seg.r = NULL THEN [h |-> seg.h, r |-> FALSE]
        ELSE [h |-> enlist(sizes([seg.h EXCEPT !.max_block = first, !.min_block = first])),
              r |-> TRUE]

(***************************************************************************)
(* get_free_space: the scan of one bucket list reads an unchanging list,   *)
(* so it never ends exactly when it comes back to a visited block.         *)
(* Returns [h, r, bucketNo].                                               *)
(***************************************************************************)
RECURSIVE scan_buckets(_, _, _, _, _)
scan_buckets(h, i, curr, seen, requestedsz) ==
    IF i >= NUM_BUCKETS THEN [h |-> h, r |-> NULL, bucketNo |-> -1]
    ELSE IF curr = NULL THEN
        scan_buckets(h, i + 1, IF i + 1 < NUM_BUCKETS THEN GetBucket(h, i + 1) ELSE NULL,
                     {}, requestedsz)
    ELSE IF curr \in seen THEN [h |-> Fault(h, "hang"), r |-> NULL, bucketNo |-> -1]
    ELSE IF Chk(h, hdr_for_payload(curr)).st # "ok"
         THEN [h |-> Chk(h, hdr_for_payload(curr)), r |-> NULL, bucketNo |-> -1]
    ELSE IF get_size(h, curr) >= requestedsz
         THEN [h |-> remove_from_list(h, curr, i), r |-> curr, bucketNo |-> i]
    ELSE IF Chk(h, curr).st # "ok" THEN [h |-> Chk(h, curr), r |-> NULL, bucketNo |-> -1]
    ELSE scan_buckets(h, i, get_next_in_list(h, curr), seen \cup {curr}, requestedsz)

get_free_space(h, bucket, requestedsz) ==
    IF bucket >= NUM_BUCKETS THEN [h |-> h, r |-> NULL, bucketNo |-> -1]
    ELSE IF bucket < 0 THEN [h |-> Fault(h, "segv"), r |-> NULL, bucketNo |-> -1]
    ELSE scan_buckets(h, bucket, GetBucket(h, bucket), {}, requestedsz)

(***************************************************************************)
(* get_new_page: granted is the provider's answer.  Returns [h, r].        *)
(***************************************************************************)
\* lines 314-344 on the answer ext of the provider, np the pages asked for
new_page_fill(ext, requestedsz, np) ==
    LET page == payload_for_hdr(ext.r)
        size_left == np * PAGE_SIZE - requestedsz - HDRSZ
        size(x) == set_payload_size(x, page, W(requestedsz))
        prevsize(x) == set_prevpayload_size(Chk(x, hdr_for_payload(x.max_block)), page,
                                            W(get_size(x, x.max_block)))
        prevflag(x) == IF AndW(W(get_size(x, x.max_block)), FREE_MASK) # ZeroW
                       THEN set_prevfree(x, page) ELSE x
        garbage(x, next_free) ==
            [set_nextfree(
                 set_prevpayload_size(
                     set_payload_size(x, next_free,
                         OrW(W(np * PAGE_SIZE - requestedsz - 2 * HDRSZ), FREE_MASK)),
                     next_free, W(requestedsz)),
                 next_free)
             EXCEPT !.max_block = next_free]
        freeable(x, curr) ==
            [myfree(set_prevpayload_size(set_payload_size(x, curr, W(size_left - HDRSZ)),
                                         curr, W(requestedsz)),
                    curr)
             EXCEPT !.max_block = curr]
        rest(x) == IF size_left = 0 THEN [x EXCEPT !.max_block = page]
                   ELSE IF size_left < HDRSZ + 2 * PTRSZ
                        THEN garbage(x, payload_for_hdr(get_next(x, page)))
                        ELSE freeable(x, payload_for_hdr(get_next(x, page)))
    IN  [h |-> rest(prevflag(prevsize(size(ext.h)))), r |-> page]

\* a page extender that asks the provider for one page more than needed
get_new_page_spare(h, requestedsz, granted) ==
    new_page_fill(extend_heap_segment(h,
                      roundup(requestedsz + HDRSZ, PAGE_SIZE) \div PAGE_SIZE + 1, granted),
                  requestedsz, roundup(requestedsz + HDRSZ, PAGE_SIZE) \div PAGE_SIZE + 1)

get_new_page(h, requestedsz, granted) ==
    LET np == roundup(requestedsz + HDRSZ, PAGE_SIZE) \div PAGE_SIZE
    IN  new_page_fill(extend_heap_segment(h, np, granted), requestedsz, np)

(***************************************************************************)
(* mymalloc.  Returns [h, r].                                              *)
(***************************************************************************)
\* lines 373-386: the rest of the found block becomes a block that is freed
malloc_split(h, next_free, requestedsz, remaining_size) ==
    LET sizes(x) == set_prevpayload_size(
                        set_payload_size(x, next_free, W(remaining_size - HDRSZ)),
                        next_free, W(requestedsz))
        above(x) == IF next_free < x.max_block
                    THEN set_prevfree(
                             set_prevpayload_size(x, payload_for_hdr(get_next(x, next_free)),
                                                  W(get_size(x, next_free))),
                             next_free)
                    ELSE x
        newmax(x) == IF next_free > x.max_block THEN [x EXCEPT !.max_block = next_free] ELSE x
    IN  myfree(newmax(above(sizes(h))), next_free)

\* the leftover handled as a block of the lists, whatever its size
malloc_garbage_listed(h, next_free, requestedsz, remaining_size) ==
    malloc_split(h, next_free, requestedsz, remaining_size)

\* lines 387-405: the rest of the found block is too small for the list
malloc_garbage(h, next_free, requestedsz, remaining_size) ==
    LET sizes(x) == set_prevpayload_size(
                        set_payload_size(x, next_free,
                            OrW(W(remaining_size - HDRSZ), FREE_MASK)),
                        next_free, W(requestedsz))
        nextflag(x) == IF is_free(x, payload_for_hdr(get_next(x, next_free)))
                       THEN set_payload_size(x, next_free,
                                OrW(W(get_size(x, next_free)), NEXT_FREE))
                       ELSE x
        above(x) == IF next_free > x.max_block THEN [x EXCEPT !.max_block = next_free]
                    ELSE IF next_free < x.max_block
                    THEN nextflag(set_prevfree(
                             set_prevpayload_size(x, payload_for_hdr(get_next(x, next_free)),
                                                  W(get_size(x, next_free))),
                             next_free))
                    ELSE x
        below(x) == IF next_free > x.min_block THEN set_nextfree(x, next_free) ELSE x
    IN  coalesce(below(above(sizes(h))), next_free).h

\* lines 406-412: the found block has exactly the size asked for
malloc_perfect(h, curr) ==
    IF curr < h.max_block
    THEN LET a == PAdd(curr, Val(get_payloadsz(h, curr)))
         IN  St(Chk(h, a), a, [Ld(h, a) EXCEPT !.lo = AndW(@, NotW(PREV_FREE))])
    ELSE h

\* lines 413-423: the flags of the neighbours of the block handed out
malloc_flags(h, curr) ==
    LET clear_nf(x, prev) ==
            LET a == hdr_for_payload(prev)
                p1 == St(Chk(x, a), a, [Ld(x, a) EXCEPT !.lo = AndW(@, NotW(NEXT_FREE))])
            IN  IF is_free(p1, prev) THEN set_prevfree(p1, prev) ELSE p1
        set_nf(x, next) ==
            LET n0 == Chk(x, hdr_for_payload(next))
            IN  IF is_free(n0, next) THEN set_nextfree(n0, next) ELSE n0
        below(x) == IF curr > x.min_block THEN clear_nf(x, get_prev(x, curr)) ELSE x
        above(x) == IF curr < x.max_block
                    THEN set_nf(x, payload_for_hdr(get_next(x, curr))) ELSE x
    IN  above(below(h))

\* lines 368-423 on the answer fs of get_free_space
malloc_place(fs, requestedsz, granted) ==
    LET curr == fs.r
        tmp == get_size(fs.h, curr)
        remaining_size == tmp - requestedsz
        h1 == set_payload_size(fs.h, curr, W(requestedsz))
        next_free == payload_for_hdr(get_next(h1, curr))
    IN  IF fs.h.st # "ok" THEN [h |-> fs.h, r |-> NULL]
        ELSE IF curr = NULL THEN get_new_page(fs.h, requestedsz, granted)
        \* tmp - requestedsz wraps around when tmp < requestedsz: not tracked
        ELSE IF tmp < requestedsz THEN [h |-> Fault(fs.h, "undef"), r |-> NULL]
        ELSE [h |-> malloc_flags(
                        IF remaining_size >= HDRSZ + 2 * PTRSZ
                        THEN malloc_split(h1, next_free, requestedsz, remaining_size)
                        ELSE IF requestedsz # tmp
                        THEN malloc_garbage(h1, next_free, requestedsz, remaining_size)
                        ELSE malloc_perfect(h1, curr),
                        curr),
              r |-> curr]

\* mymalloc without the test of line 358
mymalloc_unguarded(h, size, granted) ==
    LET rounded == roundup(size, ALIGNMENT)
        requestedsz == IF rounded < 16 THEN 16 ELSE rounded
    IN  malloc_place(get_free_space(h, cal_bucket(requestedsz), requestedsz),
                     requestedsz, granted)

mymalloc(h, size, granted) ==
    LET rounded == roundup(size, ALIGNMENT)
        requestedsz == IF rounded < 16 THEN 16 ELSE rounded
    IN  IF size = 0 THEN [h |-> h, r |-> NULL]
        ELSE malloc_place(get_free_space(h, cal_bucket(requestedsz), requestedsz),
                          requestedsz, granted)

(***************************************************************************)
(* memmove(dst, src, n) on whole slots (n is a multiple of 8).             *)
(***************************************************************************)
memmove(h, dst, src, n) ==
    IF h.st # "ok" \/ n = 0 THEN h
    ELSE IF ~InSeg(h, dst) \/ ~InSeg(h, src) \/ ~InSeg(h, PAdd(dst, n - 8))
            \/ ~InSeg(h, PAdd(src, n - 8))
         THEN Fault(h, "segv")
    ELSE
    LET D == {a \in dst..(dst + n - 8) : (a - dst) % 8 = 0}
        from(a) == a - dst + src
        keep == {a \in DOMAIN h.mem : a \notin D}
        new == {a \in D : from(a) \in DOMAIN h.mem}
    IN  [h EXCEPT !.mem = [a \in keep \cup new |->
                              IF a \in D THEN h.mem[from(a)] ELSE h.mem[a]]]

(***************************************************************************)
(* myrealloc.  Returns [h, r].                                             *)
(***************************************************************************)
\* lines 581-601: the block grows into the free block above it
realloc_in_place(h, oldptr, oldsz, new_size) ==
    LET next_block == payload_for_hdr(get_next(h, oldptr))
        nextsz == get_size(h, next_block)
        remainder == payload_for_hdr(PAdd(oldptr, new_size))
        unlink(x) == remove_from_list(Chk(x, hdr_for_payload(next_block)), next_block,
                                      cal_bucket(nextsz))
        sizes(x) == set_prevpayload_size(
                        set_payload_size(x, remainder, W(oldsz + nextsz - new_size)),
                        remainder, W(new_size))
        nextflag(x) == set_payload_size(x, remainder,
                           OrW(get_payloadsz(x, remainder),
                               AndW(get_payloadsz(x, next_block), NEXT_FREE)))
        resize(x) == set_payload_size(x, oldptr,
                         OrW(OrW(W(new_size), NEXT_FREE),
                             AndW(get_payloadsz(x, oldptr), PREV_FREE)))
        above(x) == IF remainder < x.max_block
                    THEN set_prevpayload_size(x, payload_for_hdr(get_next(x, remainder)),
                                              W(get_size(x, remainder)))
                    ELSE x
        newmax(x) == IF remainder > x.max_block THEN [x EXCEPT !.max_block = remainder] ELSE x
    IN  myfree(newmax(above(resize(nextflag(sizes(unlink(h)))))), remainder)

\* lines 604-608 on the answer m of mymalloc
realloc_copy(m, oldptr, n) == [h |-> myfree(memmove(m.h, m.r, oldptr, n), oldptr), r |-> m.r]

\* myrealloc without the test of line 572
myrealloc_always_resizes(h, oldptr, newsz, granted) ==
    LET h0 == Chk(h, hdr_for_payload(oldptr))
        oldsz == get_size(h0, oldptr)
        rounded == roundup(newsz, ALIGNMENT)
        new_size == IF rounded < 16 THEN 16 ELSE rounded
        nextsz == get_size(h0, payload_for_hdr(get_next(h0, oldptr)))
        leftover == nextsz + oldsz - new_size
        fallback == realloc_copy(mymalloc(h0, new_size, granted), oldptr,
                                 IF oldsz < new_size THEN oldsz ELSE new_size)
    IN  IF h0.st # "ok" THEN [h |-> h0, r |-> NULL]
        ELSE IF (oldsz < new_size) /\ has_next_free(h0, oldptr) /\ (oldptr < h0.max_block)
                /\ leftover >= 2 * PTRSZ
        THEN [h |-> realloc_in_place(h0, oldptr, oldsz, new_size), r |-> oldptr]
        ELSE fallback

myrealloc(h, oldptr, newsz, granted) ==
    LET h0 == Chk(h, hdr_for_payload(oldptr))
        oldsz == get_size(h0, oldptr)
        rounded == roundup(newsz, ALIGNMENT)
        new_size == IF rounded < 16 THEN 16 ELSE rounded
        nextsz == get_size(h0, payload_for_hdr(get_next(h0, oldptr)))
        leftover == nextsz + oldsz - new_size
        fallback == realloc_copy(mymalloc(h0, new_size, granted), oldptr,
                                 IF oldsz < new_size THEN oldsz ELSE new_size)
    IN  IF h0.st # "ok" THEN [h |-> h0, r |-> NULL]
        ELSE IF rounded = oldsz THEN [h |-> h0, r |-> oldptr]
        ELSE IF (oldsz < new_size) /\ has_next_free(h0, oldptr) /\ (oldptr < h0.max_block)
                /\ leftover >= 2 * PTRSZ
        THEN [h |-> realloc_in_place(h0, oldptr, oldsz, new_size), r |-> oldptr]
        ELSE fallback

(***************************************************************************)
(* What the model tracks of the heap's bytes between two calls: the header *)
(* of every block of the implicit list and the two pointer words at the    *)
(* start of every payload of at least 16 bytes.  All other bytes (client   *)
(* data, and what old headers and links left inside merged blocks) are     *)
(* dropped from mem; a call that reads one of them ends in status undef.   *)
(***************************************************************************)
RECURSIVE walk_from(_, _, _)
\* the payloads from p up to max_block, or <<NULL>> at the end if the walk
\* leaves the tracked headers
walk_from(h, p, fuel) ==
    IF fuel = 0 \/ ~InSeg(h, hdr_for_payload(p)) \/ hdr_for_payload(p) \notin DOMAIN h.mem
       \/ p > h.max_block
    THEN <<NULL>>
    ELSE IF p = h.max_block THEN <<p>>
    ELSE <<p>> \o walk_from(h, payload_for_hdr(get_next(h, p)), fuel - 1)

Blocks(h) == walk_from(h, h.min_block, (h.npages * PAGE_SIZE) \div HDRSZ)

WalkOk(h) == LET b == Blocks(h) IN b[Len(b)] # NULL

Scrub(h) ==
    IF ~WalkOk(h) THEN h
    ELSE
    LET b == Blocks(h)
        keep == UNION {{hdr_for_payload(b[i])}
                       \cup (IF get_size(h, b[i]) >= 2 * PTRSZ
                             THEN {b[i], b[i] + PTRSZ} ELSE {}) : i \in 1..Len(b)}
    IN  [h EXCEPT !.mem = [a \in keep \cap DOMAIN h.mem |-> h.mem[a]]]

\* whether myrealloc(oldptr, newsz) takes the fallback path of lines 604-608
realloc_moves(h, oldptr, newsz) ==
    LET oldsz == get_size(h, oldptr)
        rounded == roundup(newsz, ALIGNMENT)
        new_size == IF rounded < 16 THEN 16 ELSE rounded
    IN  /\ rounded # oldsz
        /\ ~( /\ oldsz < new_size
              /\ has_next_free(h, oldptr)
              /\ oldptr < h.max_block
              /\ get_size(h, payload_for_hdr(get_next(h, oldptr))) + oldsz - new_size
                     >= 2 * PTRSZ )

\* whether mymalloc(size) finds no fitting block on the lists and has to call
\* get_new_page (line 367)
needs_page(h, size) ==
    LET rounded == roundup(size, ALIGNMENT)
        requestedsz == IF rounded < 16 THEN 16 ELSE rounded
        fs == get_free_space(h, cal_bucket(requestedsz), requestedsz)
    IN  size # 0 /\ fs.h.st = "ok" /\ fs.r = NULL

(***************************************************************************)
(* The state machine.  The client calls myinit first, then any of          *)
(* mymalloc, myfree, myrealloc with valid arguments, or myinit again.      *)
(* live counts, per payload address, how many allocations of it the        *)
(* client still holds; last records the call that produced the state; pre  *)
(* is the heap as it was before a successful mymalloc and the size asked    *)
(* for, kept while the next call gives that very block back with myfree;   *)
(* unlinked is the set of the payload sizes of the blocks the last call     *)
(* handed to remove_from_list.                                             *)
(***************************************************************************)
AllocSizes == {0, 1, 20, 24, 4072, 4088, 4089}

ReallocSizes == {8, 40}

Heap == [mem |-> mem, buckets |-> buckets, max_block |-> max_block,
         min_block |-> min_block, npages |-> npages, st |-> "ok", unlinked |-> {}]

LiveCount == LET RECURSIVE sum(_)
                 sum(S) == IF S = {} THEN 0
                           ELSE LET x == CHOOSE x \in S : TRUE IN live[x] + sum(S \ {x})
             IN  sum(DOMAIN live)

AddLive(l, p) == IF p \in DOMAIN l THEN [l EXCEPT ![p] = @ + 1] ELSE (p :> 1) @@ l

DelLive(l, p) == IF l[p] > 1 THEN [l EXCEPT ![p] = @ - 1]
                 ELSE [x \in (DOMAIN l) \ {p} |-> l[x]]

\* the provider may grant an extension only while the segment stays within MaxPages
Grants(size) ==
    LET rounded == roundup(size, ALIGNMENT)
        req == IF rounded < 16 THEN 16 ELSE rounded
        np == roundup(req + HDRSZ, PAGE_SIZE) \div PAGE_SIZE
    IN  IF npages + np <= MaxPages THEN {TRUE, FALSE} ELSE {FALSE}

\* commit the heap state a call ends in; a call that does not end normally
\* leaves the model stopped in status segv or hang
CommitUpTo(h, l, rec, n, cap) ==
    /\ n <= cap
    /\ allocs' = n
    /\ unlinked' = h.unlinked
    /\ IF h.st = "ok"
       THEN /\ mem' = Scrub(h).mem
            /\ buckets' = h.buckets
            /\ max_block' = h.max_block
            /\ min_block' = h.min_block
            /\ npages' = h.npages
            /\ status' = "ok"
            /\ live' = l
            /\ last' = rec
       ELSE /\ status' = h.st
            /\ last' = [rec EXCEPT !.ret = NULL]
            /\ UNCHANGED <<mem, buckets, max_block, min_block, npages, live>>

Commit(h, l, rec, n) == CommitUpTo(h, l, rec, n, MaxAllocs)

NoLive == [x \in {} |-> 0]

\* the allocator's globals before the first myinit: a heap without pages
NoPre == [mem |-> [x \in {} |-> ZeroSlot], buckets |-> [i \in 0..(NUM_BUCKETS - 1) |-> NULL],
          max_block |-> NULL, min_block |-> NULL, npages |-> 0, st |-> "ok",
          unlinked |-> {}]

\* pre when no allocation is being undone
NoUndo == [heap |-> NoPre, n |-> 0]

Init ==
    /\ mem = [x \in {} |-> ZeroSlot]
    /\ buckets = [i \in 0..(NUM_BUCKETS - 1) |-> NULL]
    /\ max_block = NULL
    /\ min_block = NULL
    /\ npages = 0
    /\ status = "start"
    /\ live = NoLive
    /\ last = [op |-> "none", ptr |-> NULL, size |-> 0, ret |-> NULL, refused |-> FALSE]
    /\ allocs = 0
    /\ pre = NoUndo
    /\ unlinked = {}

InitOk ==
    /\ status \in {"start", "ok"}
    /\ LET r == myinit(Heap, TRUE)
       IN  Commit(r.h, NoLive, [op |-> "init", ptr |-> NULL, size |-> 0,
                                ret |-> IF r.r THEN 1 ELSE 0, refused |-> FALSE], 0)
    /\ pre' = NoUndo

InitRefused ==
    /\ status \in {"start", "ok"}
    /\ LET r == myinit(Heap, FALSE)
       IN  /\ mem' = r.h.mem
           /\ buckets' = r.h.buckets
           /\ max_block' = r.h.max_block
           /\ min_block' = r.h.min_block
           /\ npages' = r.h.npages
           /\ status' = "start"
           /\ live' = NoLive
           /\ last' = [op |-> "init", ptr |-> NULL, size |-> 0,
                       ret |-> IF r.r THEN 1 ELSE 0, refused |-> TRUE]
           /\ allocs' = 0
           /\ unlinked' = r.h.unlinked
    /\ pre' = NoUndo

\* the client receives the answer r of mymalloc(size)
AllocReturns(r, size, refused) ==
    /\ Commit(r.h, IF r.r = NULL THEN live ELSE AddLive(live, r.r),
              [op |-> "alloc", ptr |-> NULL, size |-> size, ret |-> r.r, refused |-> refused],
              IF size = 0 THEN allocs ELSE allocs + 1)
    /\ pre' = IF r.h.st = "ok" /\ r.r # NULL THEN [heap |-> Heap, n |-> size] ELSE NoUndo

Alloc ==
    /\ status = "ok"
    /\ LiveCount < MaxLive
    /\ \E size \in AllocSizes : \E granted \in Grants(size) :
         AllocReturns(mymalloc(Heap, size, granted), size,
                      ~granted /\ needs_page(Heap, size))

Free ==
    /\ status = "ok"
    /\ \E p \in DOMAIN live :
         /\ Commit(myfree(Heap, p), DelLive(live, p),
                   [op |-> "free", ptr |-> p, size |-> 0, ret |-> NULL, refused |-> FALSE],
                   allocs)
         /\ pre' = IF last.op = "alloc" /\ last.ret = p THEN pre ELSE NoUndo

FreeNull ==
    /\ status = "ok"
    /\ Commit(myfree(Heap, NULL), live,
              [op |-> "free", ptr |-> NULL, size |-> 0, ret |-> NULL, refused |-> FALSE],
              allocs)
    /\ pre' = NoUndo

\* the client receives the answer r of myrealloc(p, size)
ReallocReturns(r, p, size, refused, moved) ==
    /\ Commit(r.h, IF r.r = p THEN live ELSE AddLive(DelLive(live, p), r.r),
              [op |-> "realloc", ptr |-> p, size |-> size, ret |-> r.r, refused |-> refused],
              IF moved THEN allocs + 1 ELSE allocs)
    /\ pre' = NoUndo

\* the sizes the client asks for when resizing p: the fixed ones and the size
\* the block already has
ReallocChoices(p) == ReallocSizes \cup {get_size(Heap, p)}

Realloc ==
    /\ status = "ok"
    /\ \E p \in DOMAIN live : \E size \in ReallocChoices(p) : \E granted \in Grants(size) :
         ReallocReturns(myrealloc(Heap, p, size, granted), p, size,
                        /\ ~granted
                        /\ realloc_moves(Heap, p, size)
                        /\ needs_page(Heap, IF size < 16 THEN 16 ELSE size),
                        realloc_moves(Heap, p, size))

\* the client receives the answer r of myrealloc(NULL, size)
ReallocNullReturns(r, size, refused) ==
    /\ Commit(r.h, IF r.r = NULL THEN live ELSE AddLive(live, r.r),
              [op |-> "realloc", ptr |-> NULL, size |-> size, ret |-> r.r, refused |-> refused],
              allocs + 1)
    /\ pre' = NoUndo

\* the client calls myrealloc with a NULL old pointer
ReallocNull ==
    /\ status = "ok"
    /\ LiveCount < MaxLive
    /\ \E size \in ReallocSizes : \E granted \in Grants(size) :
         ReallocNullReturns(myrealloc(Heap, NULL, size, granted), size,
                            ~granted /\ needs_page(Heap, size))

Next == InitOk \/ InitRefused \/ Alloc \/ Free \/ FreeNull \/ Realloc \/ ReallocNull

Spec == Init /\ [][Next]_vars

(***************************************************************************)
(* A second client, for the page extender: it calls only myinit, mymalloc  *)
(* and myfree, but makes more calls, holds more blocks and lets the        *)
(* segment grow further than the client of Spec.                           *)
(***************************************************************************)
PagesMaxPages == 4

PagesMaxLive == 3

PagesMaxAllocs == 5

PageSizes == {1, 4072, 4089}

PageGrants(size) ==
    LET rounded == roundup(size, ALIGNMENT)
        req == IF rounded < 16 THEN 16 ELSE rounded
        np == roundup(req + HDRSZ, PAGE_SIZE) \div PAGE_SIZE
    IN  IF npages + np <= PagesMaxPages THEN {TRUE, FALSE} ELSE {FALSE}

PageAllocReturns(r, size, refused) ==
    /\ CommitUpTo(r.h, IF r.r = NULL THEN live ELSE AddLive(live, r.r),
                  [op |-> "alloc", ptr |-> NULL, size |-> size, ret |-> r.r,
                   refused |-> refused],
                  allocs + 1, PagesMaxAllocs)
    /\ pre' = IF r.h.st = "ok" /\ r.r # NULL THEN [heap |-> Heap, n |-> size] ELSE NoUndo

PageAlloc ==
    /\ status = "ok"
    /\ LiveCount < PagesMaxLive
    /\ \E size \in PageSizes : \E granted \in PageGrants(size) :
         PageAllocReturns(mymalloc(Heap, size, granted), size,
                          ~granted /\ needs_page(Heap, size))

PageFree ==
    /\ status = "ok"
    /\ \E p \in DOMAIN live :
         /\ CommitUpTo(myfree(Heap, p), DelLive(live, p),
                       [op |-> "free", ptr |-> p, size |-> 0, ret |-> NULL,
                        refused |-> FALSE],
                       allocs, PagesMaxAllocs)
         /\ pre' = IF last.op = "alloc" /\ last.ret = p THEN pre ELSE NoUndo

PageNext == InitOk \/ PageAlloc \/ PageFree

SpecPages == Init /\ [][PageNext]_vars

(***************************************************************************)
(* Vocabulary of the properties: the heap as the headers describe it.      *)
(***************************************************************************)
\* the payloads of the blocks in address order
BlockSeq == Blocks(Heap)

HeapWalks == WalkOk(Heap)

\* the FREE bit (bit 31) of a block's header, read directly
FreeBit(p) == get_payloadsz(Heap, p).fr

SizeOf(p) == get_size(Heap, p)

PrevFreeBit(p) == get_payloadsz(Heap, p).pf

NextFreeBit(p) == get_payloadsz(Heap, p).nf

RECURSIVE chain(_, _)
\* the payload addresses met by following next pointers from p
chain(p, seen) ==
    IF p = NULL \/ p \in seen \/ p \notin DOMAIN mem THEN seen
    ELSE chain(get_next_in_list(Heap, p), seen \cup {p})

OnList(i) == chain(buckets[i], {})

BucketIds == 0..(NUM_BUCKETS - 1)

\* some bucket list comes back to a block it has already visited
RECURSIVE cyclic(_, _)
cyclic(p, seen) ==
    IF p = NULL \/ p \notin DOMAIN mem THEN FALSE
    ELSE IF p \in seen THEN TRUE
    ELSE cyclic(get_next_in_list(Heap, p), seen \cup {p})

SomeListCyclic == \E i \in BucketIds : cyclic(buckets[i], {})

\* the bytes [p, p + size) of the live allocations
LiveRange(p) == {a \in p..(p + SizeOf(p) - 1) : a % 8 = 0}

Adjacent == {i \in 1..(Len(BlockSeq) - 1) : TRUE}

\* C1: the allocations the client holds are pairwise disjoint: no payload is
\* handed out while the client still holds it, and no two held payloads overlap
C1_LiveDisjoint ==
    status = "ok" =>
        /\ \A p \in DOMAIN live : live[p] = 1
        /\ \A p, q \in DOMAIN live : p # q => LiveRange(p) \cap LiveRange(q) = {}

\* C2: every call runs to completion: no call loops forever, and no bucket
\* list contains a cycle
C2_Terminates == status # "hang" /\ ~SomeListCyclic

\* C3: after every successful call no two blocks adjacent in address order both
\* have the FREE bit set
C3_NoAdjacentFree ==
    status = "ok" =>
        /\ HeapWalks
        /\ \A i \in Adjacent : ~(FreeBit(BlockSeq[i]) /\ FreeBit(BlockSeq[i + 1]))

\* C4: after every successful call a block has the FREE bit set iff its
\* successor has the PREV_FREE bit set
C4_PrevFreeFlag ==
    status = "ok" =>
        /\ HeapWalks
        /\ \A i \in Adjacent : FreeBit(BlockSeq[i]) <=> PrevFreeBit(BlockSeq[i + 1])

\* C5: after every successful call a block has the FREE bit set iff its
\* predecessor has the NEXT_FREE bit set
C5_NextFreeFlag ==
    status = "ok" =>
        /\ HeapWalks
        /\ \A i \in Adjacent : FreeBit(BlockSeq[i + 1]) <=> NextFreeBit(BlockSeq[i])

\* C6: after every successful call the masked prev_payload_size of every block
\* with a predecessor equals the masked payload size of that predecessor
C6_PrevSize ==
    status = "ok" =>
        /\ HeapWalks
        /\ \A i \in Adjacent :
              get_prev_size(Heap, BlockSeq[i + 1]) = SizeOf(BlockSeq[i])

\* C7: after every successful call every block with the FREE bit set and a
\* payload of at least 16 bytes is on the list of exactly one bucket, and no
\* allocated block is on any list
C7_FreeOnOneList ==
    status = "ok" =>
        /\ HeapWalks
        /\ \A i \in 1..Len(BlockSeq) :
              LET p == BlockSeq[i]
                  n == Cardinality({b \in BucketIds : p \in OnList(b)})
              IN  IF FreeBit(p) /\ SizeOf(p) >= 16 THEN n = 1
                  ELSE IF ~FreeBit(p) THEN n = 0 ELSE TRUE

RECURSIVE SumBytes(_, _)
SumBytes(b, i) == IF i > Len(b) THEN 0 ELSE HDRSZ + SizeOf(b[i]) + SumBytes(b, i + 1)

\* C8: after every successful call the walk from min_block by header + size
\* steps ends exactly at max_block, min_block is the lowest payload, and the
\* blocks cover the segment without gap or overlap
C8_Tiling ==
    status = "ok" =>
        /\ HeapWalks
        /\ min_block = payload_for_hdr(HEAP_BASE)
        /\ BlockSeq[1] = min_block
        /\ BlockSeq[Len(BlockSeq)] = max_block
        /\ SumBytes(BlockSeq, 1) = npages * PAGE_SIZE

\* the least multiple of 8 that is at least n
Ceil8(n) == CHOOSE m \in n..(n + 7) : m % 8 = 0

\* C9: a non-NULL payload returned by alloc(n), n > 0, is 8-aligned and its
\* size field is at least max(16, round_up(n, 8)); for n < 16 it is 16
C9_AllocResult ==
    (status = "ok" /\ last.op = "alloc" /\ last.size > 0 /\ last.ret # NULL) =>
        /\ last.ret % 8 = 0
        /\ SizeOf(last.ret) >= (IF Ceil8(last.size) < 16 THEN 16 ELSE Ceil8(last.size))
        /\ (last.size < 16 => SizeOf(last.ret) = 16)

\* a small request served with a 16-byte block after the heap has grown
C9_Witness ==
    /\ status = "ok" /\ last.op = "alloc" /\ last.size = 1 /\ last.ret # NULL
    /\ last.ret % 8 = 0 /\ SizeOf(last.ret) = 16 /\ npages = 2

\* C10: when the provider refuses to grow the segment, alloc and realloc
\* return NULL and leave the heap as it was
C10_RefusedReturnsNull ==
    (last.op \in {"alloc", "realloc"} /\ last.refused) => (status = "ok" /\ last.ret = NULL)

\* the heap state a call can change: every tracked header and link, the
\* bucket heads, min_block and max_block
heapvars == <<mem, buckets, min_block, max_block, npages>>

\* C11: a call alloc(0) returns NULL and leaves every header, every bucket
\* list, min_block and max_block as they were
C11_AllocZero ==
    [][(last'.op = "alloc" /\ last'.size = 0) =>
           (status' = "ok" /\ last'.ret = NULL /\ UNCHANGED heapvars)]_vars

\* alloc(0) has answered NULL on a heap of two pages with a block in use
C11_Witness ==
    /\ status = "ok" /\ last.op = "alloc" /\ last.size = 0 /\ last.ret = NULL
    /\ npages = 2 /\ LiveCount = 1

\* C12: a call free(NULL) changes nothing: headers, bucket lists, min_block
\* and max_block stay as they were
C12_FreeNull ==
    [][(last'.op = "free" /\ last'.ptr = NULL) => (status' = "ok" /\ UNCHANGED heapvars)]_vars

\* free(NULL) has returned on a heap of two pages with a block in use
C12_Witness ==
    /\ status = "ok" /\ last.op = "free" /\ last.ptr = NULL
    /\ npages = 2 /\ LiveCount = 1

\* p is the payload of a block of the implicit list
IsBlock(p) == HeapWalks /\ \E i \in 1..Len(BlockSeq) : BlockSeq[i] = p

\* C13: for an allocated payload p, realloc(p, size_of(p)) returns p and
\* leaves headers, buckets, min_block and max_block as they were
C13_ReallocSameSize ==
    [][(/\ last'.op = "realloc" /\ last'.ptr \in DOMAIN live
        /\ IsBlock(last'.ptr) /\ last'.size = SizeOf(last'.ptr)) =>
           (status' = "ok" /\ last'.ret = last'.ptr /\ UNCHANGED heapvars)]_vars

\* realloc(p, 24) has answered p for a block of 24 bytes with a free block above it
C13_Witness ==
    /\ status = "ok" /\ last.op = "realloc" /\ last.ptr \in DOMAIN live
    /\ last.size = 24 /\ SizeOf(last.ptr) = 24 /\ last.ret = last.ptr
    /\ NextFreeBit(last.ptr)

\* the size class of a request of n bytes: max(16, round_up(n, 8))
Req(n) == IF Ceil8(n) < 16 THEN 16 ELSE Ceil8(n)

\* C14: for an allocated payload p, realloc(p, n) with max(16, round_up(n, 8))
\* equal to the current size of p returns p and leaves the heap as it was
C14_ReallocSameClass ==
    [][(/\ last'.op = "realloc" /\ last'.ptr \in DOMAIN live
        /\ IsBlock(last'.ptr) /\ Req(last'.size) = SizeOf(last'.ptr)) =>
           (status' = "ok" /\ last'.ret = last'.ptr /\ UNCHANGED heapvars)]_vars

\* the sequence of blocks of heap h as their payloadsz words: size and the
\* FREE, NEXT_FREE and PREV_FREE bits, in address order
Shape(h) == [i \in 1..Len(Blocks(h)) |-> get_payloadsz(h, Blocks(h)[i])]

RECURSIVE ListIn(_, _, _)
\* the payloads on the list that starts at p in heap h
ListIn(h, p, seen) ==
    IF p = NULL \/ p \in seen \/ p \notin DOMAIN h.mem THEN seen
    ELSE ListIn(h, get_next_in_list(h, p), seen \cup {p})

\* the set of free blocks of every bucket of heap h
Lists(h) == [i \in BucketIds |-> ListIn(h, h.buckets[i], {})]

\* C15: p = alloc(n) with n > 0 followed at once by free(p) gives back the heap
\* of before the alloc: the same sequence of blocks with the same sizes and
\* flag bits and the same set of free blocks in every bucket, also when the
\* alloc had to extend the segment
C15_AllocFreeRestores ==
    (status = "ok" /\ last.op = "free" /\ pre.n > 0) =>
        (Shape(Heap) = Shape(pre.heap) /\ Lists(Heap) = Lists(pre.heap))

\* realloc(p, n) can take the bytes it needs from the free block above p
GrowsInPlace(p, n) ==
    /\ Req(n) > SizeOf(p)
    /\ NextFreeBit(p)
    /\ p < max_block
    /\ SizeOf(p) + SizeOf(payload_for_hdr(get_next(Heap, p))) >= Req(n) + 16

\* realloc(p, n) has to move the block
MustMove(p, n) == Req(n) # SizeOf(p) /\ ~GrowsInPlace(p, n)

\* the lesser of two sizes
Min(a, b) == IF a < b THEN a ELSE b

\* the tracked payload slots of p among its first n bytes
Held(p, n) == {a \in DOMAIN mem : a >= p /\ a < p + n}

\* in heap h the byte at address p lies in a block with the FREE bit set
InFreeBlock(h, p) ==
    /\ WalkOk(h)
    /\ \E i \in 1..Len(Blocks(h)) :
          LET b == Blocks(h)[i]
          IN  b <= p /\ p < b + get_size(h, b) /\ get_payloadsz(h, b).fr

\* C16: when realloc(p, n) cannot answer in place and the segment can serve the
\* request, it returns a payload c other than p whose first min(size of p, req)
\* bytes are the bytes p held before the call, and p's block is free afterwards
C16_ReallocMoves ==
    [][(/\ last'.op = "realloc" /\ last'.ptr \in DOMAIN live /\ IsBlock(last'.ptr)
        /\ MustMove(last'.ptr, last'.size) /\ ~last'.refused) =>
           (/\ status' = "ok"
            /\ last'.ret # NULL /\ last'.ret # last'.ptr
            /\ \A a \in Held(last'.ptr, Min(SizeOf(last'.ptr), Req(last'.size))) :
                  /\ (a - last'.ptr + last'.ret) \in DOMAIN mem'
                  /\ mem'[a - last'.ptr + last'.ret] = mem[a]
            /\ InFreeBlock(Heap', last'.ptr))]_vars

\* the payload of the block right above p
Above(p) == payload_for_hdr(get_next(Heap, p))

\* the payloads on some bucket list of heap h
Listed(h) == UNION {Lists(h)[i] : i \in BucketIds}

\* C17: if req exceeds the size of p, p has NEXT_FREE set, p < max_block and
\* size of p + size of the neighbour >= req + 16, then realloc(p, n) returns p,
\* the size of p becomes req with its old payload bytes untouched, the old
\* neighbour is on no bucket list any more, and one free block of size
\* (size of p + size of the neighbour - req) right after p's new payload is on
\* a bucket list
C17_ReallocInPlace ==
    [][(/\ last'.op = "realloc" /\ last'.ptr \in DOMAIN live /\ IsBlock(last'.ptr)
        /\ GrowsInPlace(last'.ptr, last'.size)) =>
           (/\ status' = "ok"
            /\ last'.ret = last'.ptr
            /\ get_size(Heap', last'.ptr) = Req(last'.size)
            /\ \A a \in Held(last'.ptr, SizeOf(last'.ptr)) : a \in DOMAIN mem' /\ mem'[a] = mem[a]
            /\ Above(last'.ptr) \notin Listed(Heap')
            /\ LET rem == payload_for_hdr(last'.ptr + Req(last'.size))
               IN  /\ get_payloadsz(Heap', rem).fr
                   /\ get_size(Heap', rem)
                          = SizeOf(last'.ptr) + SizeOf(Above(last'.ptr)) - Req(last'.size)
                   /\ rem \in Listed(Heap'))]_vars

\* C18: for a call realloc(p, n) on an allocated p that returns r: if r # p,
\* the bytes of p lie afterwards in a block with the FREE bit set; if r = p,
\* p is still an allocated block: FREE bit clear and on no bucket list
C18_OldPointer ==
    [][(/\ last'.op = "realloc" /\ last'.ptr \in DOMAIN live /\ IsBlock(last'.ptr)
        /\ status' = "ok") =>
           IF last'.ret # last'.ptr
           THEN InFreeBlock(Heap', last'.ptr)
           ELSE /\ ~get_payloadsz(Heap', last'.ptr).fr
                /\ last'.ptr \notin Listed(Heap')]_vars

\* C19: realloc(NULL, n) with n > 0 behaves like alloc(n): the call returns
\* normally, with a freshly allocated block unless the segment cannot grow,
\* and reads no header in front of the NULL pointer
C19_ReallocNull ==
    (last.op = "realloc" /\ last.ptr = NULL /\ last.size > 0) =>
        /\ status = "ok"
        /\ (last.ret = NULL => last.refused)
        /\ (last.ret # NULL => (last.ret \in DOMAIN live /\ ~FreeBit(last.ret)))

RECURSIVE Log2(_)
\* floor(log2(s)) for s >= 1
Log2(s) == IF s < 2 THEN 0 ELSE 1 + Log2(s \div 2)

\* the size class of a block of s bytes: floor(log2(s)) - 2 within 0..14
SizeClass(s) ==
    IF Log2(s) - 2 < 0 THEN 0
    ELSE IF Log2(s) - 2 > NUM_BUCKETS - 1 THEN NUM_BUCKETS - 1
    ELSE Log2(s) - 2

\* C20: init returns true exactly when init_heap_segment returns non-NULL, and
\* after a successful init the heap is one block: FREE, of PAGE_SIZE - 8
\* bytes, with prev_payload_size = INIT_MASK, the only element of the bucket
\* of its size class, every other bucket empty, min_block = max_block = its
\* payload
C20_InitState ==
    (last.op = "init") =>
        /\ (last.ret = 1 <=> ~last.refused)
        /\ (last.ret = 1 =>
              LET first == HEAP_BASE + HDRSZ
              IN  /\ status = "ok"
                  /\ npages = 1
                  /\ min_block = first /\ max_block = first
                  /\ BlockSeq = <<first>>
                  /\ FreeBit(first) /\ SizeOf(first) = PAGE_SIZE - 8
                  /\ Ld(Heap, hdr_for_payload(first)).hi = INIT_MASK
                  /\ \A i \in BucketIds :
                        buckets[i] = IF i = SizeClass(PAGE_SIZE - 8) THEN first ELSE NULL
                  /\ get_next_in_list(Heap, first) = NULL
                  /\ get_prev_in_list(Heap, first) = NULL)

\* init has succeeded and set up the single free block
C20_Witness ==
    /\ status = "ok" /\ last.op = "init" /\ last.ret = 1 /\ ~last.refused
    /\ max_block = HEAP_BASE + HDRSZ /\ FreeBit(max_block) /\ buckets[9] = max_block

\* the heap that myinit sets up in a process that has not used the allocator
FreshHeap == Scrub(myinit(NoPre, TRUE).h)

\* C21: init is a full reset: whatever calls came before, a successful init
\* leaves the buckets, min_block, max_block and the single free block exactly
\* as init leaves them in a fresh process; no list entry or flag survives
C21_InitResets ==
    [][(last'.op = "init" /\ last'.ret = 1) =>
           (status' = "ok" /\ Heap' = FreshHeap /\ live' = NoLive)]_vars

\* init has just reset the heap to the fresh one
C21_Witness ==
    /\ status = "ok" /\ last.op = "init" /\ last.ret = 1
    /\ Heap = FreshHeap /\ live = NoLive /\ allocs = 0

\* the blocks of the heap that have the FREE bit set
FreeBlocks == {BlockSeq[i] : i \in {j \in 1..Len(BlockSeq) : FreeBit(BlockSeq[j])}}

\* init(); p = alloc(24) has just returned
FirstAlloc24 ==
    /\ status = "ok" /\ last.op = "alloc" /\ last.size = 24
    /\ allocs = 1 /\ LiveCount = 1 /\ npages = 1 /\ Len(BlockSeq) = 2

\* C22 as claimed: after init(); p = alloc(24), p is non-NULL with size 24 and
\* exactly one free block remains, of 4056 bytes, linked on bucket 11
C22_FirstAllocBucket11 ==
    [][(last.op = "init" /\ last.ret = 1 /\ last'.op = "alloc" /\ last'.size = 24) =>
           (/\ status' = "ok" /\ last'.ret # NULL
            /\ get_size(Heap', last'.ret) = 24
            /\ \E f \in DOMAIN mem' :
                  /\ Blocks(Heap') = <<last'.ret, f>>
                  /\ get_payloadsz(Heap', f).fr /\ get_size(Heap', f) = 4056
                  /\ Lists(Heap') = [i \in BucketIds |-> IF i = 11 THEN {f} ELSE {}])]_vars

\* C22 amended: the same, with the free block linked on bucket 9, the class
\* floor(log2(4056)) - 2 of its size
C22_FirstAllocBucket9 ==
    [][(last.op = "init" /\ last.ret = 1 /\ last'.op = "alloc" /\ last'.size = 24) =>
           (/\ status' = "ok" /\ last'.ret # NULL
            /\ get_size(Heap', last'.ret) = 24
            /\ \E f \in DOMAIN mem' :
                  /\ Blocks(Heap') = <<last'.ret, f>>
                  /\ get_payloadsz(Heap', f).fr /\ get_size(Heap', f) = 4056
                  /\ Lists(Heap') = [i \in BucketIds |->
                                        IF i = SizeClass(4056) THEN {f} ELSE {}])]_vars

\* alloc(24) has returned a block of 24 bytes from the fresh heap, and the one
\* free block left is on bucket 9
C22_Witness ==
    /\ FirstAlloc24 /\ last.ret = HEAP_BASE + HDRSZ /\ SizeOf(last.ret) = 24
    /\ FreeBlocks = {max_block} /\ SizeOf(max_block) = 4056 /\ OnList(9) = {max_block}

\* C23: on the heap that init leaves, for every n that fits in the page,
\* p = alloc(n); free(p); q = alloc(n) gives q = p, and afterwards the heap
\* has at most one free block
C23_AddressReuse ==
    [][(/\ status = "ok" /\ last.op = "free" /\ pre.n > 0 /\ pre.heap = FreshHeap
        /\ Req(pre.n) <= PAGE_SIZE - HDRSZ
        /\ last'.op = "alloc" /\ last'.size = pre.n) =>
           (/\ status' = "ok"
            /\ last'.ret = last.ptr
            /\ WalkOk(Heap')
            /\ Cardinality({i \in 1..Len(Blocks(Heap')) :
                               get_payloadsz(Heap', Blocks(Heap')[i]).fr}) <= 1)]_vars

\* the second alloc(4072) on the fresh heap has returned the block of the first
C23_Witness ==
    /\ status = "ok" /\ last.op = "alloc" /\ last.size = 4072 /\ allocs = 2
    /\ pre.heap = FreshHeap /\ pre.n = 4072
    /\ last.ret = HEAP_BASE + HDRSZ /\ live = (last.ret :> 1)
    /\ Cardinality(FreeBlocks) = 1

\* C24: when every block allocated since init has been freed, in any order,
\* and the heap never grew beyond the initial page, the heap is one block:
\* FREE, of PAGE_SIZE - 8 bytes, on exactly one bucket, the others empty
C24_AllFreed ==
    (status = "ok" /\ last.op = "free" /\ last.ptr # NULL /\ npages = 1 /\ LiveCount = 0) =>
        /\ BlockSeq = <<HEAP_BASE + HDRSZ>>
        /\ FreeBit(HEAP_BASE + HDRSZ)
        /\ SizeOf(HEAP_BASE + HDRSZ) = PAGE_SIZE - 8
        /\ Cardinality({i \in BucketIds : buckets[i] # NULL}) = 1
        /\ Cardinality({i \in BucketIds : OnList(i) = {HEAP_BASE + HDRSZ}}) = 1

\* the first payload of the region a granted extension adds to the heap h
NewRegion(h) == HEAP_BASE + h.npages * PAGE_SIZE + HDRSZ

\* C25: when alloc(n) finds no fitting free block and the provider grants the
\* extension, the heap grows by exactly ceil((req + 8) / PAGE_SIZE) pages, the
\* call returns the first payload of the new region, whose prev_payload_size
\* is the size of the old max_block, and max_block strictly advances to the
\* last block of the new region (the returned block itself on a perfect fit,
\* the block behind it on a garbage or free tail)
\* (checked for the client of SpecPages)
C25_NewPage ==
    [][(/\ status = "ok" /\ last'.op = "alloc"
        /\ needs_page(Heap, last'.size) /\ ~last'.refused) =>
           (/\ status' = "ok"
            /\ npages' = npages + (Req(last'.size) + HDRSZ + PAGE_SIZE - 1) \div PAGE_SIZE
            /\ last'.ret = NewRegion(Heap)
            /\ get_size(Heap', last'.ret) = Req(last'.size)
            /\ get_prev_size(Heap', last'.ret) = get_size(Heap, max_block)
            /\ max_block' > max_block
            /\ max_block' \in {last'.ret, last'.ret + Req(last'.size) + HDRSZ}
            /\ max_block' + get_size(Heap', max_block') = HEAP_BASE + npages' * PAGE_SIZE)]_vars

\* the blocks that follow one another on a bucket list: x is on the list of
\* some bucket and y is its next pointer
Successors ==
    {<<x, get_next_in_list(Heap, x)>> : x \in UNION {OnList(i) : i \in BucketIds}}

\* C26: within every bucket, following next pointers from the head visits
\* blocks in non-decreasing payload size, also after a free of a block whose
\* size equals that of the head of its bucket
C26_AscendingSize ==
    status = "ok" =>
        \A s \in Successors :
            s[2] # NULL => (s[2] - HDRSZ \in DOMAIN mem /\ SizeOf(s[1]) <= SizeOf(s[2]))

\* C27: every bucket list is a well-formed doubly-linked list: the head has
\* prev = NULL, the prev pointer of the next of x is x, and the list is
\* acyclic, ends in NULL and so holds no block twice
C27_DoublyLinked ==
    status = "ok" =>
        /\ ~SomeListCyclic
        /\ \A i \in BucketIds :
               buckets[i] # NULL => get_prev_in_list(Heap, buckets[i]) = NULL
        /\ \A s \in Successors :
               s[2] # NULL => (s[2] \in DOMAIN mem /\ get_prev_in_list(Heap, s[2]) = s[1])

\* the first two payload slots of p, where the list pointers of a free block
\* lie, as the heap h holds them
Payload(h, p) == <<Ld(h, p), Ld(h, p + PTRSZ)>>

\* the blocks the client holds before and after a call, other than the
\* argument of the call and the block a realloc returns
Bystanders ==
    {p \in DOMAIN live \cap DOMAIN live' :
        /\ p # last'.ptr
        /\ ~(last'.op = "realloc" /\ p = last'.ret)
        /\ IsBlock(p)
        /\ \E i \in 1..Len(Blocks(Heap')) : Blocks(Heap')[i] = p}

\* C28: no call writes into the payload of a block that is allocated, other
\* than realloc copying into the block it returns: the list pointer writes
\* of myfree and remove_from_list touch payloads of free blocks only
C28_LivePayloadUntouched ==
    [][(status = "ok" /\ status' = "ok") =>
           \A p \in Bystanders : Payload(Heap', p) = Payload(Heap, p)]_vars

\* C29: in every state a call leaves behind, a block has the FREE bit set if
\* and only if it is linked on some bucket list; stated for the blocks of at
\* least 16 bytes, the only ones a list may hold
C29_FreeIffLinked ==
    (status = "ok" /\ HeapWalks) =>
        \A i \in 1..Len(BlockSeq) :
            SizeOf(BlockSeq[i]) >= 2 * PTRSZ =>
                (FreeBit(BlockSeq[i]) <=> BlockSeq[i] \in Listed(Heap))

\* the blocks too small to hold the two list pointers
Garbage == {BlockSeq[i] : i \in {j \in 1..Len(BlockSeq) : SizeOf(BlockSeq[j]) < 2 * PTRSZ}}

GarbageBeside(p) ==
    {g \in Garbage : \E i \in 1..(Len(BlockSeq) - 1) :
        \/ (BlockSeq[i] = p /\ BlockSeq[i + 1] = g)
        \/ (BlockSeq[i] = g /\ BlockSeq[i + 1] = p)}

\* C31: a leftover block (FREE, payload < 16, unlinked) is absorbed when the
\* block directly below or directly above it is freed: after the free it is
\* no block of its own any more, also when it was left at the end of the
\* heap and a page extension followed it
C31_GarbageAbsorbed ==
    [][(status = "ok" /\ HeapWalks /\ last'.op = "free" /\ last'.ptr # NULL
        /\ live[last'.ptr] = 1) =>
           (/\ status' = "ok" /\ WalkOk(Heap')
            /\ \A g \in GarbageBeside(last'.ptr) :
                   \A i \in 1..Len(Blocks(Heap')) : Blocks(Heap')[i] # g)]_vars

\* the payloads of the blocks of heap h, as a set
BlockSet(h) == {Blocks(h)[i] : i \in 1..Len(Blocks(h))}

\* what mymalloc makes of the free block p of heap h when it takes it for a
\* request of req bytes, in the heap k it leaves: nothing new on a perfect
\* fit, else a block right above p, linked if it has room for two pointers
Carved(h, k, p, req) ==
    LET tmp == get_size(h, p)
        q == p + req + HDRSZ
    IN  /\ get_size(k, p) = req
        /\ ~get_payloadsz(k, p).fr
        /\ IF tmp = req THEN BlockSet(k) = BlockSet(h)
           ELSE /\ BlockSet(k) = BlockSet(h) \cup {q}
                /\ get_size(k, q) = tmp - req - HDRSZ
                /\ get_payloadsz(k, q).fr
                /\ (req + HDRSZ) + (get_size(k, q) + HDRSZ) = tmp + HDRSZ
                /\ IF tmp - req >= HDRSZ + 2 * PTRSZ
                   THEN q \in Lists(k)[cal_bucket(get_size(k, q))]
                   ELSE q \notin Listed(k)

Pos(p) == CHOOSE i \in 1..Len(BlockSeq) : BlockSeq[i] = p

\* the address-order neighbours of p that have the FREE bit set
FreeBelow(p) == IF Pos(p) > 1 /\ FreeBit(BlockSeq[Pos(p) - 1])
                THEN {BlockSeq[Pos(p) - 1]} ELSE {}

FreeAbove(p) == IF Pos(p) < Len(BlockSeq) /\ FreeBit(BlockSeq[Pos(p) + 1])
                THEN {BlockSeq[Pos(p) + 1]} ELSE {}

\* the block that free(p) has to leave and its size: p and its free
\* neighbours in one, each absorbed neighbour adding its payload and header
MergedAt(p) == IF FreeBelow(p) = {} THEN p ELSE BlockSeq[Pos(p) - 1]

MergedSize(p) ==
    SizeOf(p)
    + (IF FreeBelow(p) = {} THEN 0 ELSE SizeOf(BlockSeq[Pos(p) - 1]) + HDRSZ)
    + (IF FreeAbove(p) = {} THEN 0 ELSE SizeOf(BlockSeq[Pos(p) + 1]) + HDRSZ)

\* C33: free(p) merges p with exactly those address-order neighbours that
\* are free: the free block it leaves has the payload sizes of p and of each
\* absorbed neighbour plus 8 per absorbed neighbour, the absorbed neighbours
\* are off their buckets, and the merged block is linked once, in the bucket
\* of its new size class
C33_FreeMerges ==
    [][(/\ status = "ok" /\ HeapWalks /\ last'.op = "free" /\ last'.ptr # NULL
        /\ live[last'.ptr] = 1 /\ IsBlock(last'.ptr) /\ ~FreeBit(last'.ptr)) =>
           (/\ status' = "ok" /\ WalkOk(Heap')
            /\ MergedAt(last'.ptr) \in BlockSet(Heap')
            /\ get_payloadsz(Heap', MergedAt(last'.ptr)).fr
            /\ get_size(Heap', MergedAt(last'.ptr)) = MergedSize(last'.ptr)
            /\ FreeAbove(last'.ptr) \cap Listed(Heap') = {}
            /\ {b \in BucketIds : MergedAt(last'.ptr) \in Lists(Heap')[b]}
                   = {cal_bucket(MergedSize(last'.ptr))})]_vars

RECURSIVE AheadOf(_, _, _, _)
\* the blocks met on the list that starts at p in heap h before x is met
AheadOf(h, p, x, seen) ==
    IF p = NULL \/ p = x \/ p \in seen \/ p \notin DOMAIN h.mem THEN seen
    ELSE AheadOf(h, get_next_in_list(h, p), x, seen \cup {p})

\* the blocks of heap h that a scan for req bytes passes over before it
\* reaches x on the list of bucket b: the lists of the buckets from the class
\* of req up to b - 1, and the part of the list of b ahead of x
Passed(h, req, b, x) ==
    UNION {Lists(h)[i] : i \in cal_bucket(req)..(b - 1)}
        \cup AheadOf(h, h.buckets[b], x, {})

\* C34: alloc(n) extends the segment only when no block linked on a bucket
\* has size >= req; otherwise it returns the first block of size >= req met
\* by scanning the buckets from the class of req upward, each from its head;
\* every block linked on a bucket above the class of req and below 14 is
\* large enough for req
C34_FirstFit ==
    [][(/\ status = "ok" /\ last'.op = "alloc" /\ last'.size > 0 /\ status' = "ok"
        /\ ~last'.refused) =>
           (/\ npages' > npages =>
                   \A x \in Listed(Heap) : SizeOf(x) < Req(last'.size)
            /\ npages' = npages =>
                   \E b \in cal_bucket(Req(last'.size))..(NUM_BUCKETS - 1) :
                       /\ last'.ret \in Lists(Heap)[b]
                       /\ SizeOf(last'.ret) >= Req(last'.size)
                       /\ \A x \in Passed(Heap, Req(last'.size), b, last'.ret) :
                              SizeOf(x) < Req(last'.size)
            /\ \A b \in (cal_bucket(Req(last'.size)) + 1)..(NUM_BUCKETS - 2) :
                   \A x \in Lists(Heap)[b] : SizeOf(x) >= Req(last'.size))]_vars

(***************************************************************************)
(* A specification for cal_bucket alone: the initial states hold the       *)
(* argument in last.size, the one step stores the result in last.ret.      *)
(* The sizes are the multiples of 8 up to 8 * MaxSmall and those next to   *)
(* the powers of two up to the largest size a header can hold.             *)
(***************************************************************************)
MaxSmall == 64

\* SIZE_MASK 0x7ffffffc: bit 30 is the highest bit of a block size
TopExp == 30

BucketSizes ==
    {8 * k : k \in 1..MaxSmall}
        \cup UNION {{2^j - 8, 2^j, 2^j + 8} : j \in 4..TopExp}
        \cup {2147483640}

BucketInit ==
    /\ mem = [x \in {} |-> ZeroSlot]
    /\ buckets = [i \in 0..(NUM_BUCKETS - 1) |-> NULL]
    /\ max_block = NULL
    /\ min_block = NULL
    /\ npages = 0
    /\ status = "start"
    /\ live = NoLive
    /\ \E s \in BucketSizes :
          last = [op |-> "none", ptr |-> NULL, size |-> s, ret |-> NULL, refused |-> FALSE]
    /\ allocs = 0
    /\ pre = NoUndo
    /\ unlinked = {}

BucketCall ==
    /\ last.op = "none"
    /\ last' = [last EXCEPT !.op = "cal_bucket", !.ret = cal_bucket(last.size)]
    /\ UNCHANGED <<mem, buckets, max_block, min_block, npages, status, live, allocs, pre,
                   unlinked>>

SpecBucket == BucketInit /\ [][BucketCall]_vars

\* e is floor(log2(s)): 2^e <= s < 2^(e + 1)
IsLog2(e, s) == 2^e <= s /\ s \div 2 < 2^e

\* C35: for every payload size s that is a multiple of 8 with s >= 8, the
\* bucket index computed for s is min(floor(log2(s)) - 2, 14) and lies in
\* 0..14
C35_BucketIndex ==
    last.op = "cal_bucket" =>
        /\ last.ret \in 0..(NUM_BUCKETS - 1)
        /\ \E e \in 0..TopExp :
               IsLog2(e, last.size) /\ last.ret = Min(e - 2, NUM_BUCKETS - 1)

\* the index has been computed for the largest size below the clamp
C35_Witness ==
    /\ last.op = "cal_bucket" /\ last.size = 2^16 - 8 /\ last.ret = 13

\* C36: the bucket index computation maps size 16 to bucket 1, size 32 to
\* bucket 2, and every size >= 2^16 to bucket 14
C36_Examples ==
    last.op = "cal_bucket" =>
        /\ last.size = 16 => last.ret = 1
        /\ last.size = 32 => last.ret = 2
        /\ last.size >= 2^16 => last.ret = 14

\* C36 as the code has it: size 16 is mapped to bucket 2, size 32 to bucket
\* 3, and every size >= 2^16 to bucket 14
C36_ExamplesShifted ==
    last.op = "cal_bucket" =>
        /\ last.size = 16 => last.ret = 2
        /\ last.size = 32 => last.ret = 3
        /\ last.size >= 2^16 => last.ret = 14

\* the index of size 16 has been computed
C36_Witness ==
    /\ last.op = "cal_bucket" /\ last.size = 16 /\ last.ret = 2

\* C37: a shrinking realloc never shrinks in place: for an allocated p and
\* a size n with max(16, round_up(n, 8)) below the size of p, realloc(p, n)
\* returns a payload other than p, the one alloc gives for the request, and
\* p's block is free afterwards
C37_ShrinkMoves ==
    [][(/\ status = "ok" /\ last'.op = "realloc" /\ last'.ptr \in DOMAIN live
        /\ IsBlock(last'.ptr) /\ Req(last'.size) < SizeOf(last'.ptr)
        /\ ~last'.refused) =>
           (/\ status' = "ok"
            /\ last'.ret # last'.ptr
            /\ last'.ret \in {mymalloc(Heap, Req(last'.size), g).r : g \in BOOLEAN} \ {NULL}
            /\ InFreeBlock(Heap', last'.ptr))]_vars

\* C38: a request whose rounded size plus one header is a multiple of
\* PAGE_SIZE and that the page extender serves leaves no tail block: the
\* returned block fills the new region from its first byte to the end of
\* the segment and becomes max_block
C38_WholePage ==
    [][(/\ status = "ok" /\ last'.op = "alloc" /\ needs_page(Heap, last'.size)
        /\ ~last'.refused /\ (Req(last'.size) + HDRSZ) % PAGE_SIZE = 0) =>
           (/\ status' = "ok"
            /\ last'.ret = NewRegion(Heap)
            /\ get_size(Heap', last'.ret) = Req(last'.size)
            /\ ~get_payloadsz(Heap', last'.ret).fr
            /\ last'.ret + Req(last'.size) = HEAP_BASE + npages' * PAGE_SIZE
            /\ max_block' = last'.ret)]_vars

\* alloc(4088) has been served by a page of its own
C38_Witness ==
    /\ status = "ok" /\ last.op = "alloc" /\ last.size = 4088
    /\ last.ret = HEAP_BASE + PAGE_SIZE + HDRSZ /\ npages = 2 /\ max_block = last.ret
    /\ SizeOf(last.ret) = 4088

\* C39: is_free(payload) is true exactly when bit 31 (FREE) of the block's
\* header size field is set, for every block header of the heap
C39_IsFree ==
    status = "ok" =>
        \A p \in BlockSet(Heap) \ {NULL} : is_free(Heap, p) <=> FreeBit(p)

====
